---- MODULE Spec2Model ----
(***************************************************************************)
(* Content resolution and deduplication of vod_scraper.                    *)
(*                                                                         *)
(* Two resolvers write the same PostgreSQL catalog:                        *)
(*   - scraper/pipelines.py   PostgreSQLPipeline (one worker thread per    *)
(*     scraped item, deferToThread), with a Redis match cache;             *)
(*   - api/catalog/matching_engine.py   ContentManager.                    *)
(* The store is modelled as PostgreSQL under READ COMMITTED: a transaction *)
(* reads committed rows and its own writes; an INSERT that meets another   *)
(* transaction's uncommitted row with the same unique key waits for it.    *)
(*                                                                         *)
(* Python values: a str is a sequence of one-character strings; an         *)
(* optional value is a sequence of length <= 1 (None is << >>).            *)
(***************************************************************************)
EXTENDS Integers, Sequences, FiniteSets, TLC

(***************************************************************************)
(* Bounds of the model.                                                    *)
(***************************************************************************)
\* records handed to the resolvers in one run
MaxRecords == 2

(***************************************************************************)
(* Text.                                                                   *)
(***************************************************************************)
None == << >>
Some(v) == << v >>
IsNone(o) == o = << >>
Val(o) == o[1]

\* the characters \s matches
Whitespace == {" "}
\* characters that are neither \w nor \s
Punctuation == {"!", ".", "'", ":", "-"}

\* str.lower(), per character
LowerChar(c) ==
  CASE c = "A" -> "a" [] c = "D" -> "d" [] c = "M" -> "m"
    [] c = "T" -> "t" [] c = "X" -> "x" [] OTHER -> c

Lower(s) == [i \in 1..Len(s) |-> LowerChar(s[i])]

RECURSIVE LStrip(_)
LStrip(s) ==
  IF s # << >> /\ Head(s) \in Whitespace THEN LStrip(Tail(s)) ELSE s

RECURSIVE RStrip(_)
RStrip(s) ==
  IF s # << >> /\ s[Len(s)] \in Whitespace
  THEN RStrip(SubSeq(s, 1, Len(s) - 1)) ELSE s

\* str.strip()
Strip(s) == RStrip(LStrip(s))

\* re.sub(r"[^\w\s]", " ", s)
SubPunctuation(s) ==
  [i \in 1..Len(s) |-> IF s[i] \in Punctuation THEN " " ELSE s[i]]

\* str.split(): the maximal runs of non-whitespace characters
RECURSIVE SplitFrom(_, _, _)
SplitFrom(s, word, acc) ==
  IF s = << >>
  THEN IF word = << >> THEN acc ELSE Append(acc, word)
  ELSE IF Head(s) \in Whitespace
       THEN SplitFrom(Tail(s), << >>,
                      IF word = << >> THEN acc ELSE Append(acc, word))
       ELSE SplitFrom(Tail(s), Append(word, Head(s)), acc)

Split(s) == SplitFrom(s, << >>, << >>)

\* " ".join(words)
RECURSIVE Join(_)
Join(words) ==
  IF words = << >> THEN << >>
  ELSE IF Len(words) = 1 THEN words[1]
  ELSE words[1] \o << " " >> \o Join(Tail(words))

RECURSIVE FilterWords(_, _)
FilterWords(words, drop) ==
  IF words = << >> THEN << >>
  ELSE IF Head(words) \in drop THEN FilterWords(Tail(words), drop)
  ELSE << Head(words) >> \o FilterWords(Tail(words), drop)

\* EnhancedContentMatcher.common_words
common_words ==
  { <<"t","h","e">>, <<"a">>, <<"a","n">>, <<"a","n","d">>, <<"o","r">>,
    <<"b","u","t">>, <<"i","n">>, <<"o","n">>, <<"a","t">>, <<"t","o">>,
    <<"f","o","r">>, <<"o","f">>, <<"w","i","t","h">>, <<"b","y">> }

\* EnhancedContentMatcher.normalize_title; title is an optional str
normalize_title(title) ==
  IF IsNone(title) \/ Val(title) = << >> THEN << >>
  ELSE LET t1 == Strip(Lower(Val(title)))
           t2 == SubPunctuation(t1)
           t3 == Join(Split(t2))
       IN  Join(FilterWords(Split(t3), common_words))


\* EnhancedContentMatcher.title_variations, in the dict's order:
\* <<base title, alternates>>
title_variations ==
  << << <<"FA_MEEM","FA_TEH","FA_REH","FA_YEH"," ","FA_SHEEN","FA_YEH",
          "FA_SHEEN"," ","FA_WAW"," ","FA_NOON","FA_YEH","FA_MEEM">>,
        << <<"m","e","t","r","i"," ","s","h","i","s","h"," ","o"," ","n","i","m">>,
           <<"m","e","t","r","i"," ","s","h","e","s","h"," ","o"," ","n","i","m">>,
           <<"m","e","t","r","i"," ","6",".","5">> >> >>,
     << <<"FA_SHEEN","FA_QAF","FA_ALEF","FA_YEH","FA_QAF">>,
        << <<"s","h","a","g","h","a","y","e","g","h">> >> >>,
     << <<"FA_KHAH","FA_ALEF","FA_NOON","FA_HEH"," ","FA_PEH","FA_DAL",
          "FA_REH","FA_YEH">>,
        << <<"k","h","a","n","e"," ","p","e","d","a","r","i">>,
           <<"k","h","a","n","e","h"," ","p","e","d","a","r","i">>,
           <<"f","a","t","h","e","r","'","s"," ","h","o","u","s","e">> >> >> >>

Range(f) == {f[i] : i \in DOMAIN f}

\* s contains sub (str.__contains__, SQL LIKE %sub%)
Contains(s, sub) ==
  \E i \in 0..(Len(s) - Len(sub)) : SubSeq(s, i + 1, i + Len(sub)) = sub

(***************************************************************************)
(* Similarity. A score is a rational << numerator, denominator >>.         *)
(***************************************************************************)
Max2(a, b) == IF a >= b THEN a ELSE b
Min2(a, b) == IF a <= b THEN a ELSE b

RatLeq(p, q) == p[1] * q[2] <= q[1] * p[2]
RatLess(p, q) == p[1] * q[2] < q[1] * p[2]
RatMax(p, q) == IF RatLeq(p, q) THEN q ELSE p

\* a[i .. i+k-1] = b[j .. j+k-1]
BlockAt(a, b, i, j, k) ==
  /\ i + k - 1 <= Len(a) /\ j + k - 1 <= Len(b)
  /\ SubSeq(a, i, i + k - 1) = SubSeq(b, j, j + k - 1)

\* the least and the greatest element of a non-empty set of numbers
Least(S) == CHOOSE x \in S : \A y \in S : x <= y
Greatest(S) == CHOOSE x \in S : \A y \in S : y <= x

\* the start in b of the earliest block of size k that starts at i in a
EarliestInB(a, b, i, k) == Least({j \in 1..Len(b) : BlockAt(a, b, i, j, k)})

\* the earliest block of size k: << i, j, k >>
EarliestBlock(a, b, k) ==
  LET i == Least({x \in 1..Len(a) : \E j \in 1..Len(b) : BlockAt(a, b, x, j, k)})
  IN  << i, EarliestInB(a, b, i, k), k >>

\* difflib.SequenceMatcher.find_longest_match without junk: the longest
\* common block, the earliest in a and then the earliest in b; << i, j, k >>
find_longest_match(a, b) ==
  LET ks == {k \in 1..Min2(Len(a), Len(b)) :
               \E i \in 1..Len(a), j \in 1..Len(b) : BlockAt(a, b, i, j, k)}
  IN  IF ks = {} THEN << 1, 1, 0 >> ELSE EarliestBlock(a, b, Greatest(ks))

\* the summed size of difflib.SequenceMatcher.get_matching_blocks: the
\* longest block m, and the blocks to its left and to its right
RECURSIVE matching_size(_, _)
RECURSIVE matching_size_around(_, _, _)
matching_size_around(a, b, m) ==
  IF m[3] = 0 THEN 0
  ELSE m[3]
       + matching_size(SubSeq(a, 1, m[1] - 1), SubSeq(b, 1, m[2] - 1))
       + matching_size(SubSeq(a, m[1] + m[3], Len(a)),
                       SubSeq(b, m[2] + m[3], Len(b)))

matching_size(a, b) ==
  IF a = << >> \/ b = << >> THEN 0
  ELSE matching_size_around(a, b, find_longest_match(a, b))

\* difflib.SequenceMatcher(None, a, b).ratio() = 2.0 * matches / length
sequence_ratio(a, b) ==
  IF Len(a) + Len(b) = 0 THEN << 1, 1 >>
  ELSE << 2 * matching_size(a, b), Len(a) + Len(b) >>

\* jellyfish: the first unflagged character of s2 within the search range
\* of position i that equals s1[i]; 0 when there is none
jaro_partner(s1, s2, i, range, f2) ==
  LET cand == {j \in Max2(1, i - range)..Min2(i + range, Len(s2)) :
                 j \notin f2 /\ s2[j] = s1[i]}
  IN  IF cand = {} THEN 0 ELSE Least(cand)

\* jellyfish: the characters of s1 and s2 flagged as common, scanning s1
\* left to right; state << flags of s1, flags of s2 >> as sets of indices
RECURSIVE jaro_flags(_, _, _, _, _)
RECURSIVE jaro_flag(_, _, _, _, _, _)
jaro_flag(s1, s2, i, f1, f2, j) ==
  IF j = 0 THEN jaro_flags(s1, s2, i + 1, f1, f2)
  ELSE jaro_flags(s1, s2, i + 1, f1 \cup {i}, f2 \cup {j})

jaro_flags(s1, s2, i, f1, f2) ==
  IF i > Len(s1) THEN << f1, f2 >>
  ELSE jaro_flag(s1, s2, i, f1, f2,
                 jaro_partner(s1, s2, i,
                              Max2((Max2(Len(s1), Len(s2)) \div 2) - 1, 0), f2))

\* the n-th smallest element of a set of numbers
RECURSIVE Nth(_, _)
Nth(S, n) == IF n = 1 THEN Least(S) ELSE Nth(S \ {Least(S)}, n - 1)

\* the Winkler boost of a Jaro score num/den over 0.7, for a common prefix
\* of pre characters
winkler(num, den, pre) ==
  IF 10 * num > 7 * den /\ pre > 0
  THEN << 10 * num + pre * (den - num), 10 * den >>
  ELSE << num, den >>

\* the score for c common characters, half of them transposed
jaro_score(s1, s2, c, half) ==
  IF c = 0 THEN << 0, 1 >>
  ELSE winkler(c * c * Len(s2) + c * c * Len(s1)
                 + (c - (half \div 2)) * Len(s1) * Len(s2),
               3 * Len(s1) * Len(s2) * c,
               Cardinality({n \in 1..Min2(Min2(Len(s1), Len(s2)), 4) :
                              \A m \in 1..n : s1[m] = s2[m]}))

\* the score for the flags fl of the common characters
jaro_of_flags(s1, s2, fl) ==
  jaro_score(s1, s2, Cardinality(fl[1]),
             Cardinality({n \in 1..Cardinality(fl[1]) :
                            s1[Nth(fl[1], n)] # s2[Nth(fl[2], n)]}))

\* jellyfish.jaro_winkler_similarity(s1, s2)
jaro_winkler_similarity(s1, s2) ==
  IF Len(s1) = 0 \/ Len(s2) = 0 THEN << 0, 1 >>
  ELSE jaro_of_flags(s1, s2, jaro_flags(s1, s2, 1, {}, {}))

\* the score by SequenceMatcher alone
similarity_by_ratio(normalized1, normalized2) ==
  IF normalized1 = << >> \/ normalized2 = << >> THEN << 0, 1 >>
  ELSE IF normalized1 = normalized2 THEN << 1, 1 >>
  ELSE sequence_ratio(normalized1, normalized2)

\* similarity_score of two normalized titles
similarity_of_normalized(normalized1, normalized2) ==
  IF normalized1 = << >> \/ normalized2 = << >> THEN << 0, 1 >>
  ELSE IF normalized1 = normalized2 THEN << 1, 1 >>
  ELSE RatMax(sequence_ratio(normalized1, normalized2),
              jaro_winkler_similarity(normalized1, normalized2))

\* EnhancedContentMatcher.similarity_score; both titles are optional strs
similarity_score(title1, title2) ==
  similarity_of_normalized(normalize_title(title1), normalize_title(title2))

(***************************************************************************)
(* Inputs.                                                                 *)
(***************************************************************************)
Matrix == <<"M","a","t","r","i","x">>
TheMatrix == <<"T","h","e"," ","M","a","t","r","i","x","!">>
Shaghayegh == <<"FA_SHEEN","FA_QAF","FA_ALEF","FA_YEH","FA_QAF">>
\* the title of another work, which contains the title Shaghayegh
DorehDovomShaghayegh ==
  <<"FA_DAL","FA_WAW","FA_REH","FA_HEH"," ","FA_DAL","FA_WAW","FA_MEEM"," ",
    "FA_SHEEN","FA_QAF","FA_ALEF","FA_YEH","FA_QAF">>
Action == <<"A","c","t","i","o","n">>
KhanePedari ==
  <<"FA_KHAH","FA_ALEF","FA_NOON","FA_HEH"," ","FA_PEH","FA_DAL","FA_REH","FA_YEH">>
FathersHouse == <<"f","a","t","h","e","r","'","s"," ","h","o","u","s","e">>

\* filimo_spider._safe_int and namava_spider.parse_movie yield None for a
\* missing year; None and 0 are both falsy and are one value here
YearNone == 0

\* models.Platform
FILIMO == "filimo"
NAMAVA == "namava"

\* a scraped item as a spider yields it: FilimoSpider.parse (with "type")
\* and NamavaSpider.parse_movie (without)
ScrapedItem(spider, title, year, genre_names, sid, url, raw) ==
  [spider |-> spider, title |-> title, release_year |-> year,
   type |-> IF spider = "filimo_api" THEN Some("movie") ELSE None,
   genres |-> genre_names, source_id |-> sid, url |-> url, raw_data |-> raw]

\* a listing whose title the platform has changed: another title under a
\* source id already seen
SeedItem ==
  ScrapedItem("filimo_api", Some(Shaghayegh), 1999, <<Action>>, "101", "u1", "p1")

\* the items the spiders hand to PostgreSQLPipeline.process_item: one work
\* under two titles and on two platforms, and items with a missing title or
\* year
Items ==
  { ScrapedItem("filimo_api", Some(Matrix), 1999, <<Action>>, "101", "u1", "p1"),
    ScrapedItem("namava", Some(TheMatrix), 1999, <<Action>>, "101", "u1", "p1"),
    ScrapedItem("filimo_api", Some(Matrix), YearNone, << >>, "102", "u1", "p1"),
    ScrapedItem("namava", None, 1999, << >>, "102", "u1", "p1"),
    ScrapedItem("namava", Some(<<" ">>), 1999, << >>, "102", "u1", "p1"),
    SeedItem }

\* the arguments of one call of ContentManager.process_scraped_content
ScrapedContent(title, title_en, year, sid, url) ==
  [title |-> title, title_en |-> title_en, release_year |-> year,
   movie_type |-> "movie", platform |-> FILIMO, source_id |-> sid,
   url |-> url, raw_payload |-> "p1"]

\* the calls of ContentManager.process_scraped_content: a registered
\* alternate of a stored title, the same listing under another url, the same
\* without a title, a work the catalog does not hold, the same work one and
\* two years later, and a work under a registered alternate of its title
Calls ==
  { ScrapedContent(Some(Shaghayegh), Some(<<"s","h","a","g","h","a","y","e","g","h">>),
                   1999, "201", "u1"),
    ScrapedContent(Some(Shaghayegh), Some(<<"s","h","a","g","h","a","y","e","g","h">>),
                   1999, "201", "u2"),
    ScrapedContent(None, Some(<<"s","h","a","g","h","a","y","e","g","h">>),
                   1999, "202", "u1"),
    ScrapedContent(Some(Matrix), None, 1999, "203", "u1"),
    ScrapedContent(Some(Matrix), Some(Matrix), 2000, "204", "u1"),
    ScrapedContent(Some(Matrix), Some(Matrix), 2001, "205", "u1"),
    ScrapedContent(Some(FathersHouse), Some(FathersHouse), 1999, "206", "u1") }

Workers == {"w1", "w2"}

\* FilimoSpider.name and NamavaSpider.name; CrawlerProcess gives each spider
\* a pipeline of its own
Spiders == {"filimo_api", "namava"}

(***************************************************************************)
(* State.                                                                  *)
(***************************************************************************)
VARIABLES
  movies,              \* committed rows of table movies
  sources,             \* committed rows of table sources
  genres,              \* committed rows of table genres
  movie_genres,        \* committed rows of table movie_genres
  movie_seq,           \* last id drawn from the movies id sequence
  genre_seq,           \* last id drawn from the genres id sequence
  redis_match,         \* Redis keys match:<title>:<year> -> movie id
  redis_item_sources,  \* Redis keys item_sources:<movie id> -> counter
  stats,               \* per spider: PostgreSQLPipeline.stats of its pipeline
  genre_cache,         \* per spider: PostgreSQLPipeline.genre_cache, name -> genre id
  opened,              \* per spider: "yes" once open_spider of its pipeline has returned
  pc,                  \* per worker: the step it is at
  cur,                 \* per worker: the record in hand and its locals
  tx,                  \* per worker: the uncommitted writes of its transaction
  started,             \* records handed to the resolvers so far
  last                 \* the resolution that completed last, and how

vars == << movies, sources, genres, movie_genres, movie_seq, genre_seq,
           redis_match, redis_item_sources, stats, genre_cache, opened,
           pc, cur, tx, started, last >>

db == << movies, sources, genres, movie_genres >>

\* PostgreSQLPipeline.stats after __init__
NoStats == [items_created |-> 0, items_updated |-> 0, sources_added |-> 0,
            matches_found |-> 0, errors |-> 0]

EmptyTx == [movies |-> {}, sources |-> {}, genres |-> {}, movie_genres |-> {}]
Idle == [via |-> "none"]

\* the state after PostgreSQLPipeline.__init__ of the pipeline of each
\* spider, on an empty catalog: no spider is open
Init ==
  /\ movies = {} /\ sources = {} /\ genres = {} /\ movie_genres = {}
  /\ movie_seq = 0 /\ genre_seq = 0
  /\ redis_match = << >> /\ redis_item_sources = << >>
  /\ stats = [p \in Spiders |-> NoStats]
  /\ genre_cache = [p \in Spiders |-> << >>]
  /\ opened = [p \in Spiders |-> "no"]
  /\ pc = [w \in Workers |-> "idle"]
  /\ cur = [w \in Workers |-> Idle]
  /\ tx = [w \in Workers |-> EmptyTx]
  /\ started = 0
  /\ last = Idle

(***************************************************************************)
(* The store.                                                              *)
(***************************************************************************)
Put(f, k, v) == [x \in DOMAIN f \cup {k} |-> IF x = k THEN v ELSE f[x]]

MinId(rows) == CHOOSE r \in rows : \A q \in rows : r.id <= q.id

\* the rows a query of worker w's transaction sees (READ COMMITTED)
VisibleMovies(w) == movies \cup tx[w].movies
VisibleSources(w) == sources \cup tx[w].sources
VisibleGenres(w) == genres \cup tx[w].genres

\* Movie.Meta.constraints: UniqueConstraint(fields=['title', 'year'])
MovieKey(m) == << m.title, m.year >>
\* Source.Meta.unique_together = ['platform', 'source_id']
SourceKey(s) == << s.platform, s.source_id >>
\* Genre.name: unique=True
GenreKey(g) == g.name

\* an INSERT of worker w waits while another transaction holds an
\* uncommitted row with the same unique key
MovieInsertWaits(w, key) ==
  \E o \in Workers \ {w} : \E m \in tx[o].movies : MovieKey(m) = key
SourceInsertWaits(w, key) ==
  \E o \in Workers \ {w} : \E r \in tx[o].sources : SourceKey(r) = key
GenreInsertWaits(w, key) ==
  \E o \in Workers \ {w} : \E g \in tx[o].genres : GenreKey(g) = key

\* the deferred foreign keys of movie_genres and sources, checked at COMMIT
\* against the committed rows and the transaction's own
ForeignKeysHold(w) ==
  /\ \A l \in tx[w].movie_genres :
       /\ \E m \in VisibleMovies(w) : m.id = l.movie_id
       /\ \E g \in VisibleGenres(w) : g.id = l.genre_id
  /\ \A r \in tx[w].sources : \E m \in VisibleMovies(w) : m.id = r.movie

(***************************************************************************)
(* Redis.                                                                  *)
(***************************************************************************)
\* what one call of the Redis client does: it returns, or raises
\* redis.exceptions.ConnectionError or redis.exceptions.TimeoutError
RedisOutcomes == {"ok", "ConnectionError", "TimeoutError"}

\* "for attempt in range(2)" of the setex and incr loops of pipelines.py
RedisAttempts == 2

\* one pass of the loops "for attempt in range(2): try: <call>; break /
\* except redis_exceptions.ConnectionError: ...; time.sleep(0.1)" of
\* pipelines.py, by the outcome of the call of attempt n: the call is
\* "done" (break), the loop goes on to "retry" after the sleep, runs out
\* ("given_up"), or the exception is none the loop catches ("raised")
RetryLoop(n, outcome) ==
  IF outcome = "ok" THEN "done"
  ELSE IF outcome # "ConnectionError" THEN "raised"
  ELSE IF n < RedisAttempts THEN "retry"
  ELSE "given_up"

\* the key match:<title>:<year>
MatchKey(title, year) == << title, year >>

(***************************************************************************)
(* ContentMatcher.find_matching_item(title, year, platform, source_id):    *)
(* imported by pipelines.py from api.catalog.matching_engine, which does   *)
(* not define it. Modelled from the design: cache lookup confirmed in the  *)
(* store, then the exact, fuzzy and variation strategies.                  *)
(***************************************************************************)
\* the fuzzy threshold of this matcher, in hundredths
MatcherThreshold == << 85, 100 >>
VariationBoost == << 9, 10 >>

\* the alternates of the variation table, normalized
NormalizedAlternates(entry) ==
  {normalize_title(Some(entry[2][i])) : i \in DOMAIN entry[2]}

\* bases of which the normalized title is a known alternate
BasesOf(normalized) ==
  {title_variations[i][1] : i \in
     {i \in DOMAIN title_variations :
        normalized \in NormalizedAlternates(title_variations[i])}}

cache_get(title, year, outcome) ==
  IF outcome = "ok" /\ MatchKey(title, year) \in DOMAIN redis_match
  THEN Some(redis_match[MatchKey(title, year)]) ELSE None

\* the oldest of the rows, if any
First(rows) == IF rows = {} THEN None ELSE Some(MinId(rows))

\* the rows of the year whose normalized title is n
exact_rows(rows, n, year) ==
  IF n = << >> THEN {}
  ELSE {m \in rows : m.year = year /\ normalize_title(Some(m.title)) = n}

matcher_exact(rows, title, year) ==
  First(exact_rows(rows, normalize_title(Some(title)), year))

\* the score sc, raised to the boost when the title is a registered
\* alternate of the candidate's
boosted(sc, alternate) == IF alternate THEN RatMax(sc, VariationBoost) ELSE sc

matcher_score(title, m) ==
  boosted(similarity_score(Some(title), Some(m.title)),
          \E b \in BasesOf(normalize_title(Some(title))) : Contains(m.title, b))

\* the best of the scored candidates at or above the threshold, the first
\* among equals
BestScored(scores, threshold) ==
  LET good == {m \in DOMAIN scores : RatLeq(threshold, scores[m])}
  IN  IF good = {} THEN None
      ELSE Some(CHOOSE m \in good : \A o \in good :
                  \/ RatLess(scores[o], scores[m])
                  \/ /\ ~RatLess(scores[m], scores[o])
                     /\ m.id <= o.id)

matcher_fuzzy(rows, title, year) ==
  LET cands == {m \in rows : m.year >= year - 1 /\ m.year <= year + 1}
  IN  BestScored([m \in cands |-> matcher_score(title, m)], MatcherThreshold)

\* the only one of the rows, if it is the only one
Only(rows) == IF Cardinality(rows) = 1 THEN Some(CHOOSE m \in rows : TRUE) ELSE None

\* the rows of the year whose title contains one of the bases
variation_rows(rows, bases, year) ==
  {m \in rows : m.year = year /\ \E b \in bases : Contains(m.title, b)}

matcher_variation(rows, title, year) ==
  Only(variation_rows(rows, BasesOf(normalize_title(Some(title))), year))

\* the row the cache entry names, if the store has it
cache_confirm(rows, cached) ==
  IF IsNone(cached) THEN None ELSE Only({m \in rows : m.id = Val(cached)})

\* the first of the lookups that found a movie, and how: << optional movie,
\* how >>, how being "cache", "strategy", "none", or "stale" for none after
\* an unconfirmed cache entry
first_found(cached, confirmed, exact, fuzzy, variation) ==
  IF ~IsNone(confirmed) THEN << confirmed, "cache" >>
  ELSE IF ~IsNone(exact) THEN << exact, "strategy" >>
  ELSE IF ~IsNone(fuzzy) THEN << fuzzy, "strategy" >>
  ELSE IF ~IsNone(variation) THEN << variation, "strategy" >>
  ELSE << None, IF IsNone(cached) THEN "none" ELSE "stale" >>

find_matching_item(w, title, year, get_outcome) ==
  first_found(cache_get(title, year, get_outcome),
              cache_confirm(VisibleMovies(w), cache_get(title, year, get_outcome)),
              matcher_exact(VisibleMovies(w), title, year),
              matcher_fuzzy(VisibleMovies(w), title, year),
              matcher_variation(VisibleMovies(w), title, year))

(***************************************************************************)
(* What a worker holds, and how a resolution ends.                         *)
(***************************************************************************)
\* the thread pool runs the call in a free thread; threads are
\* interchangeable, so it is the first free one
FreeWorker(w) ==
  /\ pc[w] = "idle"
  /\ \A o \in Workers : pc[o] = "idle" => (w = "w1" \/ o # "w1")

\* the third component of what process_scraped_content returns, before
\* _create_source has returned
NoSource == [type |-> "none"]

\* no resolution has run or runs at the same time as another: the workers
\* are idle and the resolution completed last, if any, ran so
Serial ==
  /\ \A o \in Workers : pc[o] = "idle"
  /\ last.via \in {"pipeline", "manager"} => last.serial

\* what a worker holds once a record is in its hands. found: how the movie
\* was found; repeat_of: the movie the resolution completed last returned,
\* if it resolved the same record; attempts: the times the record is run,
\* once, neither caller has a loop around it; cache_failed: a write to the
\* cache was given up; source: what _create_source returned; new_id: the
\* id the INSERT of the movie drew; genre: the genre get_or_create has in
\* hand; redis_try: the attempt of the Redis loop the worker is in; line,
\* seen: the "+= 1" the worker is in and the value it has read; exc,
\* stage: the exception that left the atomic block, and where it was
\* raised; serial: no resolution has overlapped another so far
Begin(via, item, found) ==
  [via |-> via, item |-> item, found |-> found, movie |-> 0,
   created |-> FALSE, source_created |-> FALSE, gi |-> 1,
   attempts |-> 1, cache_failed |-> FALSE, source |-> NoSource,
   new_id |-> 0, genre |-> 0, redis_try |-> 1,
   line |-> "none", seen |-> 0,
   exc |-> "none", stage |-> "none",
   serial |-> Serial,
   repeat_of |-> IF last.via = via /\ last.item = item /\ last.ok
                 THEN last.movie ELSE 0]

\* worker w takes a record: the resolutions in flight overlap it
Taken(w, c) ==
  [o \in Workers |->
     IF o = w THEN c
     ELSE IF cur[o].via \in {"pipeline", "manager"}
          THEN [cur[o] EXCEPT !.serial = FALSE]
          ELSE cur[o]]

\* a completed resolution: its record, whether it returned (ok) or raised
\* (exc, at the step named stage), and what it resolved to
Outcome(c, ok, exc, stage) ==
  [via |-> c.via, item |-> c.item, ok |-> ok, exc |-> exc, stage |-> stage,
   found |-> c.found, movie |-> c.movie, created |-> c.created,
   source_created |-> c.source_created, repeat_of |-> c.repeat_of,
   attempts |-> c.attempts, cache_failed |-> c.cache_failed,
   source |-> c.source, serial |-> c.serial]

\* the part of the resolution a line of a worker belongs to
Stage(p) ==
  IF p \in {"create", "insert"} THEN "create"
  ELSE IF p \in {"genres", "genre_get", "genre_savepoint", "genre_insert",
                 "genre_release", "genre_cache", "genre_add"} THEN "genres"
  ELSE IF p \in {"created", "setex"} THEN "setex"
  ELSE IF p \in {"source", "source_savepoint", "source_insert",
                 "source_release", "source_added", "incr"}
       THEN "source"
  ELSE p

\* where an exception that left the atomic block goes: in the pipeline to
\* "except Exception" of _process_item_sync, the worker holding the
\* exception; in ContentManager to the caller, the resolution is over
Propagate(w, exc, stage) ==
  IF cur[w].via = "pipeline"
  THEN /\ pc' = [pc EXCEPT ![w] = "except"]
       /\ cur' = [cur EXCEPT ![w].exc = exc, ![w].stage = stage]
       /\ UNCHANGED last
  ELSE /\ last' = Outcome(cur[w], FALSE, exc, stage)
       /\ pc' = [pc EXCEPT ![w] = "idle"]
       /\ cur' = [cur EXCEPT ![w] = Idle]

\* Rollback without the transaction: the rows written before the exception
\* stay, as they would under autocommit
RollbackKeepsWrites(w, exc) ==
  /\ tx' = [tx EXCEPT ![w] = EmptyTx]
  /\ movies' = movies \cup tx[w].movies
  /\ genres' = genres \cup tx[w].genres
  /\ UNCHANGED << sources, movie_genres >>
  /\ Propagate(w, exc, Stage(pc[w]))

\* an exception leaves "with transaction.atomic()": the worker's
\* transaction is rolled back, which lets the INSERTs that wait for its
\* rows go on, and the exception goes up
Rollback(w, exc) ==
  /\ tx' = [tx EXCEPT ![w] = EmptyTx]
  /\ UNCHANGED db
  /\ Propagate(w, exc, Stage(pc[w]))

(***************************************************************************)
(* PostgreSQLPipeline.                                                     *)
(***************************************************************************)
\* PostgreSQLPipeline._get_platform_from_spider
get_platform_from_spider(spider_name) ==
  IF spider_name = "filimo" THEN FILIMO
  ELSE IF spider_name = "namava" THEN NAMAVA
  ELSE FILIMO

\* the title, year and type _find_or_create_item_with_matching works with
ItemTitle(item) == Strip(Val(item.title))
ItemYear(item) == item.release_year
ItemType(item) == IF IsNone(item.type) THEN "movie" ELSE Val(item.type)

\* "if not title or not year", and None.strip() before it
ItemInvalid(item) ==
  IsNone(item.title) \/ ItemTitle(item) = << >> \/ ItemYear(item) = YearNone

\* the lines of the pipeline that are "self.stats[k] += 1": line 121 in
\* "except Exception", lines 137 and 138 after a match, line 158 after the
\* creation of a movie, line 191 after the creation of a source
CounterLines == {"except", "matched", "updated", "created", "source_added"}

\* the counter of a line
CounterAt(line) ==
  CASE line = "except" -> "errors"
    [] line = "matched" -> "matches_found"
    [] line = "updated" -> "items_updated"
    [] line = "created" -> "items_created"
    [] line = "source_added" -> "sources_added"

\* the line the worker goes on to
AfterCounter(line) ==
  CASE line = "except" -> "idle"
    [] line = "matched" -> "updated"
    [] line = "updated" -> "source"
    [] line = "created" -> "setex"
    [] line = "source_added" -> "incr"

\* self.stats[k] += 1, the read: the thread loads self.stats[k]; the
\* interpreter may switch to another thread before the sum is stored
load_counter(w) ==
  /\ pc[w] \in CounterLines
  /\ cur' = [cur EXCEPT ![w].line = pc[w],
                        ![w].seen = stats[cur[w].item.spider][CounterAt(pc[w])]]
  /\ pc' = [pc EXCEPT ![w] = "store"]
  /\ UNCHANGED << db, movie_seq, genre_seq, redis_match, redis_item_sources,
                  stats, genre_cache, opened, tx, started, last >>

\* self.stats[k] += 1, the write: the value read, plus one, is stored;
\* after line 121 the exception is logged and the item is returned
store_counter(w) ==
  /\ pc[w] = "store"
  /\ stats' = [stats EXCEPT ![cur[w].item.spider][CounterAt(cur[w].line)] =
                 cur[w].seen + 1]
  /\ pc' = [pc EXCEPT ![w] = AfterCounter(cur[w].line)]
  /\ IF cur[w].line = "except"
     THEN /\ last' = Outcome(cur[w], FALSE, cur[w].exc, cur[w].stage)
          /\ cur' = [cur EXCEPT ![w] = Idle]
     ELSE /\ cur' = [cur EXCEPT ![w].line = "none", ![w].seen = 0]
          /\ UNCHANGED last
  /\ UNCHANGED << db, movie_seq, genre_seq, redis_match, redis_item_sources,
                  genre_cache, opened, tx, started >>

\* how _open_spider_sync ends: it returns; line 81, the import of
\* ContentMatcher from api.catalog.matching_engine, raises ImportError, as it
\* does while that module defines no ContentMatcher; or line 95, the query
\* of the genres, raises OperationalError
OpenOutcomes == {"ok", "ImportError", "OperationalError"}

\* PostgreSQLPipeline.open_spider -> _open_spider_sync, for the pipeline
\* of a spider that is not open, whenever the crawler opens the spider, the
\* pipelines of other spiders at work or not. ImportError at line 81 leaves
\* the pipeline as __init__ made it. Past line 81 the counters are reset
\* (line 92) and the genre cache is loaded with the committed genres (lines
\* 95-96), unless the query fails. When _open_spider_sync raises, the
\* Deferred of open_spider fails and the crawl of the spider is over before
\* an item is handed to process_item: the spider is not open, and a later
\* crawl opens it anew
open_spider(p, outcome) ==
  /\ opened[p] = "no"
  /\ opened' = [opened EXCEPT ![p] = IF outcome = "ok" THEN "yes" ELSE "no"]
  /\ stats' = [stats EXCEPT ![p] = IF outcome = "ImportError" THEN @ ELSE NoStats]
  /\ genre_cache' = [genre_cache EXCEPT ![p] =
                       IF outcome # "ok" THEN @
                       ELSE [n \in DOMAIN @ \cup {g.name : g \in genres} |->
                               IF \E g \in genres : g.name = n
                               THEN (CHOOSE g \in genres : g.name = n).id
                               ELSE @[n]]]
  /\ UNCHANGED << db, movie_seq, genre_seq, redis_match, redis_item_sources,
                  pc, cur, tx, started, last >>

\* the outcomes of opening the connection of the thread to the store
ConnectOutcomes == {"ok", "OperationalError"}

\* process_item -> _process_item_sync in a worker thread, up to line 132 of
\* _find_or_create_item_with_matching: transaction.atomic() is entered,
\* which opens the connection of the thread, and the item is validated:
\* AttributeError of None.strip(), or ValueError. The crawler hands the
\* items of a spider to its pipeline once open_spider has returned
process_item(w, item, connect) ==
  /\ opened[item.spider] = "yes"
  /\ FreeWorker(w)
  /\ started < MaxRecords
  /\ started' = started + 1
  /\ pc' = [pc EXCEPT ![w] = IF connect # "ok" \/ ItemInvalid(item)
                             THEN "except" ELSE "find"]
  /\ cur' = Taken(w,
               IF connect # "ok"
               THEN [Begin("pipeline", item, "none") EXCEPT
                       !.exc = connect, !.stage = "connect"]
               ELSE IF ItemInvalid(item)
               THEN [Begin("pipeline", item, "none") EXCEPT
                       !.exc = IF IsNone(item.title)
                               THEN "AttributeError" ELSE "ValueError",
                       !.stage = "validate"]
               ELSE Begin("pipeline", item, "none"))
  /\ UNCHANGED << db, movie_seq, genre_seq, redis_match, redis_item_sources,
                  stats, genre_cache, opened, tx, last >>

\* the matcher has the item (found[1], found[2]: the movie and how it was
\* found): it refreshes the cache entry of the record, a failure of the
\* write being no more than a write not made; without a movie the entry
\* stays as it is
matcher_returns(w, key, found, set_outcome) ==
  IF IsNone(found[1])
  THEN /\ pc' = [pc EXCEPT ![w] = "create"]
       /\ cur' = [cur EXCEPT ![w].found = found[2]]
       /\ UNCHANGED redis_match
  ELSE /\ redis_match' = IF set_outcome = "ok"
                         THEN Put(redis_match, key, Val(found[1]).id)
                         ELSE redis_match
       /\ cur' = [cur EXCEPT ![w].found = found[2],
                             ![w].movie = Val(found[1]).id,
                             ![w].cache_failed = (set_outcome # "ok")]
       /\ pc' = [pc EXCEPT ![w] = "matched"]

\* line 134: self.matcher.find_matching_item(title, year, platform,
\* source_id), the call of the matcher
found_by_matcher(w, get_outcome, set_outcome) ==
  /\ pc[w] = "find"
  /\ matcher_returns(w, MatchKey(ItemTitle(cur[w].item), ItemYear(cur[w].item)),
                     find_matching_item(w, ItemTitle(cur[w].item),
                                        ItemYear(cur[w].item), get_outcome),
                     set_outcome)
  /\ UNCHANGED << db, movie_seq, genre_seq, redis_item_sources, stats,
                  genre_cache, opened, tx, started, last >>

\* the step after the genre at index i of the item
AfterGenre(item, i) == IF i > Len(item.genres) THEN "created" ELSE "genres"

\* lines 143-147, self.Item.objects.create(title, year, type): the INSERT
\* draws the id of the row from the sequence, before the unique index is
\* looked at
create_movie(w) ==
  /\ pc[w] = "create"
  /\ movie_seq' = movie_seq + 1
  /\ cur' = [cur EXCEPT ![w].new_id = movie_seq + 1]
  /\ pc' = [pc EXCEPT ![w] = "insert"]
  /\ UNCHANGED << db, genre_seq, redis_match, redis_item_sources, stats,
                  genre_cache, opened, tx, started, last >>

\* lines 143-147, the INSERT at the unique index of (title, year): it waits
\* for a transaction that holds the key, raises IntegrityError when the
\* key is committed, and otherwise has inserted the row
insert_movie(w) ==
  /\ pc[w] = "insert"
  /\ LET item == cur[w].item
         key == << ItemTitle(item), ItemYear(item) >>
     IN  /\ ~MovieInsertWaits(w, key)
         /\ IF \E m \in VisibleMovies(w) : MovieKey(m) = key
            THEN Rollback(w, "IntegrityError")
            ELSE /\ tx' = [tx EXCEPT ![w].movies = @ \cup
                             {[id |-> cur[w].new_id, title |-> ItemTitle(item),
                               year |-> ItemYear(item), type |-> ItemType(item)]}]
                 /\ cur' = [cur EXCEPT ![w].movie = cur[w].new_id,
                                       ![w].created = TRUE]
                 /\ pc' = [pc EXCEPT ![w] = AfterGenre(item, 1)]
                 /\ UNCHANGED << db, last >>
  /\ UNCHANGED << movie_seq, genre_seq, redis_match, redis_item_sources,
                  stats, genre_cache, opened, started >>

\* the name of the genre the loop of lines 150-156 is at
GenreName(w) == Strip(cur[w].item.genres[cur[w].gi])

\* lines 150-153: the next genre of the item; an empty name is passed
\* over, a name the genre cache of the pipeline has is linked from it
genre_cached(w) ==
  /\ pc[w] = "genres"
  /\ IF GenreName(w) = << >>
     THEN /\ pc' = [pc EXCEPT ![w] = AfterGenre(cur[w].item, cur[w].gi + 1)]
          /\ cur' = [cur EXCEPT ![w].gi = @ + 1]
     ELSE /\ pc' = [pc EXCEPT ![w] =
                      IF GenreName(w) \in DOMAIN genre_cache[cur[w].item.spider]
                      THEN "genre_add" ELSE "genre_get"]
          /\ UNCHANGED cur
  /\ UNCHANGED << db, movie_seq, genre_seq, redis_match, redis_item_sources,
                  stats, genre_cache, opened, tx, started, last >>

\* line 154, Genre.objects.get_or_create(name=genre_name): get() has the
\* row, or raises DoesNotExist and create() is next
get_genre(w) ==
  /\ pc[w] = "genre_get"
  /\ LET known == {g \in VisibleGenres(w) : g.name = GenreName(w)}
     IN  IF known # {}
         THEN /\ cur' = [cur EXCEPT ![w].genre = (CHOOSE g \in known : TRUE).id]
              /\ pc' = [pc EXCEPT ![w] = "genre_cache"]
         ELSE /\ pc' = [pc EXCEPT ![w] = "genre_savepoint"]
              /\ UNCHANGED cur
  /\ UNCHANGED << db, movie_seq, genre_seq, redis_match, redis_item_sources,
                  stats, genre_cache, opened, tx, started, last >>

\* create() of a get_or_create begins: SAVEPOINT, and the INSERT is sent;
\* the INSERT of a genre draws the id of the row from the sequence
begin_create(w) ==
  /\ pc[w] \in {"genre_savepoint", "source_savepoint"}
  /\ IF pc[w] = "genre_savepoint"
     THEN /\ genre_seq' = genre_seq + 1
          /\ cur' = [cur EXCEPT ![w].genre = genre_seq + 1]
          /\ pc' = [pc EXCEPT ![w] = "genre_insert"]
     ELSE /\ pc' = [pc EXCEPT ![w] = "source_insert"]
          /\ UNCHANGED << genre_seq, cur >>
  /\ UNCHANGED << db, movie_seq, redis_match, redis_item_sources, stats,
                  genre_cache, opened, tx, started, last >>

\* line 154, the INSERT of get_or_create at the unique index of name: it
\* waits for a transaction that holds the name; when the name is committed
\* get_or_create catches the IntegrityError and returns the row of get();
\* otherwise the row is inserted and the savepoint is to be released
insert_genre(w) ==
  /\ pc[w] = "genre_insert"
  /\ ~GenreInsertWaits(w, GenreName(w))
  /\ LET known == {g \in VisibleGenres(w) : g.name = GenreName(w)}
     IN  IF known # {}
         THEN /\ cur' = [cur EXCEPT ![w].genre = (CHOOSE g \in known : TRUE).id]
              /\ pc' = [pc EXCEPT ![w] = "genre_cache"]
              /\ UNCHANGED tx
         ELSE /\ tx' = [tx EXCEPT ![w].genres = @ \cup
                          {[id |-> cur[w].genre, name |-> GenreName(w)]}]
              /\ pc' = [pc EXCEPT ![w] = "genre_release"]
              /\ UNCHANGED cur
  /\ UNCHANGED << db, movie_seq, genre_seq, redis_match, redis_item_sources,
                  stats, genre_cache, opened, started, last >>

\* create() of a get_or_create ends: RELEASE SAVEPOINT, and get_or_create
\* returns the row and created = True
release_savepoint(w) ==
  /\ pc[w] \in {"genre_release", "source_release"}
  /\ pc' = [pc EXCEPT ![w] = IF pc[w] = "genre_release"
                             THEN "genre_cache" ELSE "source_added"]
  /\ UNCHANGED << db, movie_seq, genre_seq, redis_match, redis_item_sources,
                  stats, genre_cache, opened, cur, tx, started, last >>

\* line 155: self.genre_cache[genre_name] = genre
cache_genre(w) ==
  /\ pc[w] = "genre_cache"
  /\ genre_cache' = [genre_cache EXCEPT ![cur[w].item.spider] =
                       Put(@, GenreName(w), cur[w].genre)]
  /\ pc' = [pc EXCEPT ![w] = "genre_add"]
  /\ UNCHANGED << db, movie_seq, genre_seq, redis_match, redis_item_sources,
                  stats, opened, cur, tx, started, last >>

\* line 156: movie.genres.add(self.genre_cache[genre_name]), with the
\* genre the cache holds then
add_genre(w) ==
  /\ pc[w] = "genre_add"
  /\ tx' = [tx EXCEPT ![w].movie_genres = @ \cup
              {[movie_id |-> cur[w].movie,
                genre_id |-> genre_cache[cur[w].item.spider][GenreName(w)]]}]
  /\ pc' = [pc EXCEPT ![w] = AfterGenre(cur[w].item, cur[w].gi + 1)]
  /\ cur' = [cur EXCEPT ![w].gi = @ + 1]
  /\ UNCHANGED << db, movie_seq, genre_seq, redis_match, redis_item_sources,
                  stats, genre_cache, opened, started, last >>

\* where a worker goes after one pass of a Redis loop: on to the line
\* after the loop, once more round the loop, or out of the atomic block
AfterRedisCall(w, loop, outcome, next, given_up) ==
  IF loop = "raised"
  THEN Rollback(w, outcome)
  ELSE /\ pc' = [pc EXCEPT ![w] = IF loop = "retry" THEN pc[w] ELSE next]
       /\ cur' = [cur EXCEPT ![w] =
                    IF loop = "retry"
                    THEN [cur[w] EXCEPT !.redis_try = cur[w].redis_try + 1]
                    ELSE IF loop = "given_up"
                    THEN [given_up EXCEPT !.redis_try = 1]
                    ELSE [cur[w] EXCEPT !.redis_try = 1]]
       /\ UNCHANGED << db, tx, last >>

\* lines 161-171: one pass of the loop that writes the cache entry of the
\* new movie, self.redis.setex(cache_key, 3600, str(movie.id)). applied:
\* the server has run the command; the call returns only if it has, and
\* raises when the command or, after the server ran it, its reply is lost
cache_created_movie(w, outcome, applied) ==
  /\ pc[w] = "setex"
  /\ outcome = "ok" => applied
  /\ redis_match' =
       IF applied
       THEN Put(redis_match,
                MatchKey(ItemTitle(cur[w].item), ItemYear(cur[w].item)),
                cur[w].movie)
       ELSE redis_match
  /\ AfterRedisCall(w, RetryLoop(cur[w].redis_try, outcome), outcome, "source",
                    [cur[w] EXCEPT !.cache_failed = TRUE])
  /\ UNCHANGED << movie_seq, genre_seq, redis_item_sources, stats,
                  genre_cache, opened, started >>

\* PostgreSQLPipeline._create_source, lines 173-188: the source_id is
\* looked at, and get() of Source.objects.get_or_create has the row
\* (created = False) or has not
create_source(w) ==
  /\ pc[w] = "source"
  /\ cur[w].via = "pipeline"
  /\ LET item == cur[w].item
         key == << get_platform_from_spider(item.spider), item.source_id >>
     IN  IF item.source_id = ""
         THEN Rollback(w, "ValueError")
         ELSE /\ pc' = [pc EXCEPT ![w] =
                          IF \E r \in VisibleSources(w) : SourceKey(r) = key
                          THEN "commit" ELSE "source_savepoint"]
              /\ UNCHANGED << db, cur, tx, last >>
  /\ UNCHANGED << movie_seq, genre_seq, redis_match, redis_item_sources,
                  stats, genre_cache, opened, started >>

\* lines 180-188, the INSERT of get_or_create at the unique index of
\* (platform, source_id): it waits for a transaction that holds the key;
\* when the key is committed get_or_create catches the IntegrityError and
\* returns the row of get() (created = False); otherwise the row is
\* inserted and the savepoint is to be released
insert_source(w) ==
  /\ pc[w] = "source_insert"
  /\ LET item == cur[w].item
         platform == get_platform_from_spider(item.spider)
         key == << platform, item.source_id >>
     IN  /\ ~SourceInsertWaits(w, key)
         /\ IF \E r \in VisibleSources(w) : SourceKey(r) = key
            THEN /\ pc' = [pc EXCEPT ![w] = "commit"]
                 /\ UNCHANGED << cur, tx >>
            ELSE /\ tx' = [tx EXCEPT ![w].sources = @ \cup
                             {[platform |-> platform,
                               source_id |-> item.source_id,
                               movie |-> cur[w].movie, url |-> item.url,
                               raw_payload |-> item.raw_data]}]
                 /\ cur' = [cur EXCEPT ![w].source_created = TRUE]
                 /\ pc' = [pc EXCEPT ![w] = "source_release"]
  /\ UNCHANGED << db, movie_seq, genre_seq, redis_match, redis_item_sources,
                  stats, genre_cache, opened, started, last >>

\* lines 194-202: one pass of the loop around self.redis.incr(sources_key).
\* applied: the server has run the command; the call returns only if it
\* has, and raises when the command or, after the server ran it, its reply
\* is lost, so that the retry of line 198 counts the source once more
incr_sources(w, outcome, applied) ==
  /\ pc[w] = "incr"
  /\ outcome = "ok" => applied
  /\ redis_item_sources' =
       IF applied
       THEN Put(redis_item_sources, cur[w].movie,
                IF cur[w].movie \in DOMAIN redis_item_sources
                THEN redis_item_sources[cur[w].movie] + 1 ELSE 1)
       ELSE redis_item_sources
  /\ AfterRedisCall(w, RetryLoop(cur[w].redis_try, outcome), outcome, "commit",
                    cur[w])
  /\ UNCHANGED << movie_seq, genre_seq, redis_match, stats, genre_cache, opened,
                  started >>

\* commit that also brings the matched movie up to date with the item:
\* the title of the movie a pipeline record was matched to becomes the
\* title of the record
commit_overwriting(w) ==
  /\ pc[w] = "commit"
  /\ IF ForeignKeysHold(w)
     THEN /\ movies' =
               {IF cur[w].via = "pipeline" /\ ~cur[w].created
                   /\ m.id = cur[w].movie
                THEN [m EXCEPT !.title = ItemTitle(cur[w].item)] ELSE m :
                  m \in movies} \cup tx[w].movies
          /\ sources' = sources \cup tx[w].sources
          /\ genres' = genres \cup tx[w].genres
          /\ movie_genres' = movie_genres \cup tx[w].movie_genres
          /\ tx' = [tx EXCEPT ![w] = EmptyTx]
          /\ last' = Outcome(cur[w], TRUE, "none", "commit")
          /\ pc' = [pc EXCEPT ![w] = "idle"]
          /\ cur' = [cur EXCEPT ![w] = Idle]
     ELSE Rollback(w, "IntegrityError")
  /\ UNCHANGED << movie_seq, genre_seq, redis_match, redis_item_sources,
                  stats, genre_cache, opened, started >>

\* the end of "with transaction.atomic()": COMMIT with the deferred
\* foreign-key checks, then the return
commit(w) ==
  /\ pc[w] = "commit"
  /\ IF ForeignKeysHold(w)
     THEN /\ movies' = movies \cup tx[w].movies
          /\ sources' = sources \cup tx[w].sources
          /\ genres' = genres \cup tx[w].genres
          /\ movie_genres' = movie_genres \cup tx[w].movie_genres
          /\ tx' = [tx EXCEPT ![w] = EmptyTx]
          /\ last' = Outcome(cur[w], TRUE, "none", "commit")
          /\ pc' = [pc EXCEPT ![w] = "idle"]
          /\ cur' = [cur EXCEPT ![w] = Idle]
     ELSE Rollback(w, "IntegrityError")
  /\ UNCHANGED << movie_seq, genre_seq, redis_match, redis_item_sources,
                  stats, genre_cache, opened, started >>

\* the end of "with transaction.atomic()" when the store commits and the
\* answer to COMMIT does not arrive: connection.commit() raises
\* OperationalError, which leaves the atomic block, over a transaction
\* that is committed
commit_unacknowledged(w) ==
  /\ pc[w] = "commit"
  /\ ForeignKeysHold(w)
  /\ movies' = movies \cup tx[w].movies
  /\ sources' = sources \cup tx[w].sources
  /\ genres' = genres \cup tx[w].genres
  /\ movie_genres' = movie_genres \cup tx[w].movie_genres
  /\ tx' = [tx EXCEPT ![w] = EmptyTx]
  /\ Propagate(w, "OperationalError", "commit")
  /\ UNCHANGED << movie_seq, genre_seq, redis_match, redis_item_sources,
                  stats, genre_cache, opened, started >>

(***************************************************************************)
(* ContentManager and EnhancedContentMatcher.                              *)
(***************************************************************************)
\* the columns of models.Movie
MovieFields == {"id", "title", "year", "type", "created_at", "updated_at"}

\* "title_en != '' or title_en is not None": the title the strategies use
StrategyTitle(call) ==
  IF call.title_en # Some(<< >>) \/ ~IsNone(call.title_en)
  THEN call.title_en ELSE call.title

\* the rows of Movie.objects.filter(type=movie_type) the transaction sees
OfType(w, movie_type) == {m \in VisibleMovies(w) : m.type = movie_type}

\* the rows of the year whose title is n, case-insensitively
iexact_rows(rows, n, year) ==
  {m \in rows : m.year = year /\ Lower(m.title) = Lower(n)}

\* EnhancedContentMatcher._match_by_exact_criteria: the query names the
\* field title_en, which Movie does not have; filter() raises FieldError
\* and "except Exception" returns None
match_by_exact_criteria(w, call) ==
  IF call.release_year = YearNone THEN None
  ELSE IF "title_en" \notin MovieFields THEN None
  ELSE First(iexact_rows(OfType(w, call.movie_type),
                         normalize_title(StrategyTitle(call)),
                         call.release_year))

\* "score >= 0.9" of _match_by_fuzzy_logic
FuzzyThreshold == << 9, 10 >>

\* the rows the candidates query of _match_by_fuzzy_logic filters: of the
\* type, the year within one of the release year
fuzzy_rows(w, call) ==
  {m \in OfType(w, call.movie_type) :
     /\ m.year >= call.release_year - 1
     /\ m.year <= call.release_year + 1}

\* "[:100]  # Performance limit" of the candidates query
QueryLimit == 100

\* the sequences a queryset without order_by (Movie has no Meta.ordering)
\* can yield for the rows: every order of them
QueryOrders(rows) ==
  {o \in [1..Cardinality(rows) -> rows] :
     \A i, j \in 1..Cardinality(rows) : o[i] = o[j] => i = j}

\* potential_matches of _match_by_fuzzy_logic: the sequences the limited
\* query can yield for the rows that satisfy its filter
potential_matches(rows) ==
  {SubSeq(o, 1, Min2(Len(o), QueryLimit)) : o \in QueryOrders(rows)}

\* the loop of _match_by_fuzzy_logic from candidate i on: item.title_en
\* raises AttributeError and "except Exception" returns None; otherwise
\* "if score > best_score and score >= 0.9" keeps the first of the best
RECURSIVE fuzzy_loop(_, _, _, _, _)
fuzzy_loop(title, order, i, best, best_score) ==
  IF i > Len(order) THEN best
  ELSE IF "title_en" \notin MovieFields THEN None
  ELSE LET score == similarity_score(title, Some(order[i].title))
       IN  IF RatLess(best_score, score) /\ RatLeq(FuzzyThreshold, score)
           THEN fuzzy_loop(title, order, i + 1, Some(order[i]), score)
           ELSE fuzzy_loop(title, order, i + 1, best, best_score)

\* EnhancedContentMatcher._match_by_fuzzy_logic when the query yields the
\* candidates as order
match_by_fuzzy_logic(call, order) ==
  IF call.release_year = YearNone THEN None
  ELSE fuzzy_loop(StrategyTitle(call), order, 1, None, << 0, 1 >>)

\* Movie.objects.get(title__icontains=base_title, year=, type=) in
\* _match_by_title_variations: the row, or None after DoesNotExist or
\* MultipleObjectsReturned
get_by_variation(w, call, base_title) ==
  Only({m \in OfType(w, call.movie_type) :
          /\ m.year = call.release_year
          /\ Contains(Lower(m.title), Lower(base_title))})

\* EnhancedContentMatcher._match_by_title_variations, from entry i of the
\* table on
RECURSIVE match_by_title_variations_from(_, _, _)
match_by_title_variations_from(w, call, i) ==
  IF i > Len(title_variations) THEN None
  ELSE IF /\ normalize_title(StrategyTitle(call)) \in Range(title_variations[i][2])
          /\ ~IsNone(get_by_variation(w, call, title_variations[i][1]))
       THEN get_by_variation(w, call, title_variations[i][1])
       ELSE match_by_title_variations_from(w, call, i + 1)

match_by_title_variations(w, call) ==
  IF call.release_year = YearNone THEN None
  ELSE match_by_title_variations_from(w, call, 1)

\* EnhancedContentMatcher._create_movie: Movie.objects.create(title_en=...)
\* raises TypeError, Movie has no such field; otherwise the row it inserts
create_movie_raises == "title_en" \notin MovieFields

\* "if match: return match", else the next strategy
OrElse(match, next) == IF ~IsNone(match) THEN match ELSE next

\* EnhancedContentMatcher.find_or_get_movie: the match of the first
\* strategy that has one; none when it goes on to _create_movie
find_or_get_movie(w, call, order) ==
  OrElse(match_by_exact_criteria(w, call),
         OrElse(match_by_fuzzy_logic(call, order),
                match_by_title_variations(w, call)))

\* ContentManager.process_scraped_content, line 37: transaction.atomic() is
\* entered, which opens the connection of the thread; OperationalError
\* goes to the caller
process_scraped_content(w, call, connect) ==
  /\ FreeWorker(w)
  /\ started < MaxRecords
  /\ started' = started + 1
  /\ IF connect = "ok"
     THEN /\ cur' = Taken(w, Begin("manager", call, "none"))
          /\ pc' = [pc EXCEPT ![w] = "lookup"]
          /\ UNCHANGED last
     ELSE /\ last' = Outcome(Begin("manager", call, "none"), FALSE,
                             connect, "connect")
          /\ cur' = Taken(w, Idle)
          /\ UNCHANGED pc
  /\ UNCHANGED << db, movie_seq, genre_seq, redis_match, redis_item_sources,
                  stats, genre_cache, opened, tx >>

\* the outcomes of the candidates query of _match_by_fuzzy_logic
QueryOutcomes == {"ok", "OperationalError"}

\* the outcome of find_or_get_movie, taken up by ContentManager: a match
\* goes to _create_source; without one _create_movie raises
found_or_created(w, match) ==
  IF ~IsNone(match)
  THEN /\ cur' = [cur EXCEPT ![w].found = "strategy",
                             ![w].movie = Val(match).id]
       /\ pc' = [pc EXCEPT ![w] = "source"]
       /\ UNCHANGED last
  ELSE /\ create_movie_raises
       /\ Propagate(w, "TypeError", "create")

\* the variation strategy sends a query when the title of the call is a
\* registered alternate
variation_queried(call) ==
  /\ call.release_year # YearNone
  /\ \E i \in DOMAIN title_variations :
       normalize_title(StrategyTitle(call)) \in Range(title_variations[i][2])

\* lines 39-45, self.matcher.find_or_get_movie: the strategies run their
\* queries. The candidates query yields its rows in some order; or it fails
\* and "except Exception" of _match_by_fuzzy_logic (line 209) returns None
\* over a transaction the store has aborted: the next statement sent in it,
\* Movie.objects.get of the variation strategy (line 227), raises
\* InternalError (InterfaceError over a connection that is lost), which
\* _match_by_title_variations does not catch; a call that sends no such
\* statement goes on to _create_movie
matcher_find_or_get_movie(w, outcome) ==
  /\ pc[w] = "lookup"
  /\ LET call == cur[w].item
     IN  IF outcome = "ok"
         THEN \E order \in potential_matches(fuzzy_rows(w, call)) :
                found_or_created(w, find_or_get_movie(w, call, order))
         ELSE /\ call.release_year # YearNone
              /\ IF variation_queried(call)
                 THEN Propagate(w, "InternalError", "lookup")
                 ELSE found_or_created(w, match_by_exact_criteria(w, call))
  /\ UNCHANGED << db, movie_seq, genre_seq, redis_match, redis_item_sources,
                  stats, genre_cache, opened, tx, started >>

\* Movie.objects.get of _match_by_title_variations fails with a transient
\* error: it catches DoesNotExist and MultipleObjectsReturned only, and
\* OperationalError leaves the atomic block for the caller
variation_query_fails(w) ==
  /\ pc[w] = "lookup"
  /\ variation_queried(cur[w].item)
  /\ Rollback(w, "OperationalError")
  /\ UNCHANGED << movie_seq, genre_seq, redis_match, redis_item_sources,
                  stats, genre_cache, opened, started >>

\* ContentManager._create_source: Source.objects.create
manager_create_source(w) ==
  /\ pc[w] = "source"
  /\ cur[w].via = "manager"
  /\ LET call == cur[w].item
         key == << call.platform, call.source_id >>
     IN  /\ ~SourceInsertWaits(w, key)
         /\ IF \E r \in VisibleSources(w) : SourceKey(r) = key
            THEN Rollback(w, "IntegrityError")
            ELSE /\ tx' = [tx EXCEPT ![w].sources = @ \cup
                             {[platform |-> call.platform,
                               source_id |-> call.source_id,
                               movie |-> cur[w].movie, url |-> call.url,
                               raw_payload |-> call.raw_payload]}]
                 /\ cur' = [cur EXCEPT
                              ![w].source_created = TRUE,
                              ![w].source = [type |-> "Source",
                                             platform |-> call.platform,
                                             source_id |-> call.source_id]]
                 /\ pc' = [pc EXCEPT ![w] = "commit"]
                 /\ UNCHANGED << db, last >>
  /\ UNCHANGED << movie_seq, genre_seq, redis_match, redis_item_sources,
                  stats, genre_cache, opened, started >>

(***************************************************************************)
(* The system.                                                             *)
(***************************************************************************)
\* the steps of a resolution that send a statement to the store
StoreSteps == {"find", "create", "insert", "genre_get", "genre_savepoint",
               "genre_insert", "genre_release", "genre_add", "source",
               "source_savepoint", "source_insert", "source_release",
               "commit"}

\* the statement a worker sends to the store fails with a transient error
\* (connection lost, statement timeout, deadlock): django raises
\* OperationalError, which leaves transaction.atomic(). The pipeline has
\* its "except Exception" for it and no loop around the record;
\* ContentManager lets it through to its caller
store_fails(w) ==
  /\ pc[w] \in StoreSteps
  /\ Rollback(w, "OperationalError")
  /\ UNCHANGED << movie_seq, genre_seq, redis_match, redis_item_sources,
                  stats, genre_cache, opened, started >>

\* the process is shut down with resolutions in flight: their connections
\* close and PostgreSQL rolls their transactions back
shutdown ==
  /\ \E w \in Workers : pc[w] \notin {"idle", "stopped"}
  /\ pc' = [w \in Workers |-> "stopped"]
  /\ tx' = [w \in Workers |-> EmptyTx]
  /\ cur' = [w \in Workers |-> Idle]
  /\ last' = [via |-> "shutdown"]
  /\ UNCHANGED << db, movie_seq, genre_seq, redis_match, redis_item_sources,
                  stats, genre_cache, opened, started >>

\* the steps of a worker thread of the pipeline
PipelineStep(w) ==
  \/ \E item \in Items, connect \in ConnectOutcomes :
       process_item(w, item, connect)
  \/ \E get_outcome \in RedisOutcomes, set_outcome \in RedisOutcomes :
       found_by_matcher(w, get_outcome, set_outcome)
  \/ load_counter(w)
  \/ store_counter(w)
  \/ create_movie(w)
  \/ insert_movie(w)
  \/ genre_cached(w)
  \/ get_genre(w)
  \/ begin_create(w)
  \/ insert_genre(w)
  \/ release_savepoint(w)
  \/ cache_genre(w)
  \/ add_genre(w)
  \/ \E outcome \in RedisOutcomes, applied \in BOOLEAN :
       cache_created_movie(w, outcome, applied)
  \/ create_source(w)
  \/ insert_source(w)
  \/ \E outcome \in RedisOutcomes, applied \in BOOLEAN :
       incr_sources(w, outcome, applied)
  \/ commit(w)
  \/ commit_unacknowledged(w)

\* the steps of a thread that calls ContentManager
ManagerStep(w) ==
  \/ \E call \in Calls, connect \in ConnectOutcomes :
       process_scraped_content(w, call, connect)
  \/ \E outcome \in QueryOutcomes : matcher_find_or_get_movie(w, outcome)
  \/ variation_query_fails(w)
  \/ manager_create_source(w)

Step(w) == PipelineStep(w) \/ ManagerStep(w) \/ store_fails(w)

\* scrapy opens the spiders, each with its pipeline
OpenStep == \E p \in Spiders, outcome \in OpenOutcomes : open_spider(p, outcome)

\* the items of the spiders are processed in worker threads (deferToThread)
\* and ContentManager is called from the threads of its callers, until
\* MaxRecords records were handed over
Next == (\E w \in Workers : Step(w)) \/ OpenStep \/ shutdown

\* the scrapers and the callers of ContentManager, over an empty catalog
Spec == Init /\ [][Next]_vars

\* the scrapers alone
NextThreads == (\E w \in Workers : PipelineStep(w)) \/ OpenStep

SpecThreads == Init /\ [][NextThreads]_vars

\* the catalog after the pipeline of filimo_api has resolved SeedItem, the
\* pipeline still open and the spider namava not yet
InitSeeded ==
  /\ movies = {[id |-> 1, title |-> Shaghayegh, year |-> 1999, type |-> "movie"]}
  /\ sources = {[platform |-> FILIMO, source_id |-> "101", movie |-> 1,
                 url |-> "u1", raw_payload |-> "p1"]}
  /\ genres = {[id |-> 1, name |-> Action]}
  /\ movie_genres = {[movie_id |-> 1, genre_id |-> 1]}
  /\ movie_seq = 1 /\ genre_seq = 1
  /\ redis_match = Put(<< >>, MatchKey(Shaghayegh, 1999), 1)
  /\ redis_item_sources = Put(<< >>, 1, 1)
  /\ stats = [p \in Spiders |->
                IF p = SeedItem.spider
                THEN [NoStats EXCEPT !.items_created = 1, !.sources_added = 1]
                ELSE NoStats]
  /\ genre_cache = [p \in Spiders |->
                      IF p = SeedItem.spider THEN Put(<< >>, Action, 1) ELSE << >>]
  /\ opened = [p \in Spiders |-> IF p = SeedItem.spider THEN "yes" ELSE "no"]
  /\ pc = [w \in Workers |-> "idle"]
  /\ cur = [w \in Workers |-> Idle]
  /\ tx = [w \in Workers |-> EmptyTx]
  /\ started = 0
  /\ last = Idle

\* the catalog after the namava pipeline has resolved three items of 1999
\* without genres: Shaghayegh, listed as "104", DorehDovomShaghayegh,
\* listed as "105", and KhanePedari, listed as "103"; the pipeline is still
\* open and the spider filimo_api not yet
InitAmbiguous ==
  /\ movies = {[id |-> 1, title |-> Shaghayegh, year |-> 1999, type |-> "movie"],
               [id |-> 2, title |-> DorehDovomShaghayegh, year |-> 1999,
                type |-> "movie"],
               [id |-> 3, title |-> KhanePedari, year |-> 1999, type |-> "movie"]}
  /\ sources = {[platform |-> NAMAVA, source_id |-> "104", movie |-> 1,
                 url |-> "u1", raw_payload |-> "p1"],
                [platform |-> NAMAVA, source_id |-> "105", movie |-> 2,
                 url |-> "u1", raw_payload |-> "p1"],
                [platform |-> NAMAVA, source_id |-> "103", movie |-> 3,
                 url |-> "u1", raw_payload |-> "p1"]}
  /\ genres = {} /\ movie_genres = {}
  /\ movie_seq = 3 /\ genre_seq = 0
  /\ redis_match = Put(Put(Put(<< >>, MatchKey(Shaghayegh, 1999), 1),
                           MatchKey(DorehDovomShaghayegh, 1999), 2),
                       MatchKey(KhanePedari, 1999), 3)
  /\ redis_item_sources = Put(Put(Put(<< >>, 1, 1), 2, 1), 3, 1)
  /\ stats = [p \in Spiders |->
                IF p = "namava"
                THEN [NoStats EXCEPT !.items_created = 3, !.sources_added = 3]
                ELSE NoStats]
  /\ genre_cache = [p \in Spiders |-> << >>]
  /\ opened = [p \in Spiders |-> IF p = "namava" THEN "yes" ELSE "no"]
  /\ pc = [w \in Workers |-> "idle"]
  /\ cur = [w \in Workers |-> Idle]
  /\ tx = [w \in Workers |-> EmptyTx]
  /\ started = 0
  /\ last = Idle

\* the scrapers and the callers of ContentManager, over the catalogs that
\* hold movies: the one with SeedItem and the one with the three titles
SpecCatalog == (InitSeeded \/ InitAmbiguous) /\ [][Next]_vars

(***************************************************************************)
(* Properties.                                                             *)
(***************************************************************************)
\* what a resolution ends with when the store does not answer a statement,
\* or answers that the transaction is aborted
StoreErrors == {"OperationalError", "InternalError"}

\* the resolution that completed last, if any
Completed == last.via \in {"pipeline", "manager"}
Succeeded == Completed /\ last.ok
Failed == Completed /\ ~last.ok

\* the (platform, source_id) of a record
RecordKey(via, item) ==
  << IF via = "pipeline" THEN get_platform_from_spider(item.spider)
     ELSE item.platform,
     item.source_id >>

\* the title or the release year of a record is missing or empty
RecordInvalid(via, item) ==
  IF via = "pipeline" THEN ItemInvalid(item)
  ELSE IsNone(item.title) \/ Val(item.title) = << >>
         \/ item.release_year = YearNone

NormalizedKey(m) == << normalize_title(Some(m.title)), m.year >>

InFlight(w) == pc[w] \notin {"idle", "stopped"}

\* C1: in every reachable state no two committed movies share the pair
\* (normalized title, year).
C1_UniqueNormalizedTitleYear ==
  \A m1 \in movies, m2 \in movies :
    NormalizedKey(m1) = NormalizedKey(m2) => m1 = m2

\* C2: the resolution that loses a concurrent create of the same
\* (title, year) is not surfaced as a failure: no resolution ends with the
\* unique-constraint violation of its create.
C2_LoserOfCreateSucceeds ==
  ~(Failed /\ last.stage = "create" /\ last.exc = "IntegrityError")

\* C3: with the resolutions run one after the other, a resolution of the
\* record that the resolution completed just before it resolved succeeds
\* (the store answering), returns the item of that resolution without
\* creating one, and leaves exactly one movie with that id and exactly one
\* mapping for the record's (platform, source_id).
C3_RepeatedRecordSucceeds ==
  (Completed /\ last.serial /\ last.repeat_of # 0
     /\ last.exc \notin StoreErrors) =>
    /\ last.ok
    /\ last.movie = last.repeat_of
    /\ ~last.created
    /\ Cardinality({m \in movies : m.id = last.movie}) = 1
    /\ Cardinality({r \in sources :
                      SourceKey(r) = RecordKey(last.via, last.item)}) = 1

\* C4: a (platform, source_id) never has two mappings, and a resolution
\* whose (platform, source_id) is mapped already does not fail at its
\* mapping step.
C4_SecondIngestIsNoOp ==
  /\ \A r1 \in sources, r2 \in sources : SourceKey(r1) = SourceKey(r2) => r1 = r2
  /\ ~(Failed /\ last.stage = "source" /\ last.exc = "IntegrityError")

\* the worker is inside "with transaction.atomic()"
InTransaction(w) ==
  /\ InFlight(w)
  /\ pc[w] # "except"
  /\ ~(pc[w] = "store" /\ cur[w].line = "except")

\* C5 as stated: when a step after the creation of the movie has failed,
\* whichever step it is, the movie the resolution created is not committed.
C5_AnyFailureRollsBack ==
  (Failed /\ last.created) => \A m \in movies : m.id # last.movie

\* C5, in every state: a worker outside a transaction holds no uncommitted
\* write, and a movie created by a resolution that failed before its COMMIT
\* is not committed.
C5_NothingLeftBehind ==
  /\ \A w \in Workers : ~InTransaction(w) => tx[w] = EmptyTx
  /\ (Failed /\ last.created /\ last.stage # "commit") =>
       \A m \in movies : m.id # last.movie

\* C5, in every step: the committed tables change only at the COMMIT of a
\* resolution, and then by all the writes of that resolution at once; a
\* transaction that ends in any other way (an exception raised before
\* COMMIT, a shutdown) leaves the committed tables as they were and drops
\* its writes; and an exception raised by COMMIT itself leaves all the
\* writes of the resolution committed, or none.
C5_Step ==
  /\ db' # db =>
       \E w \in Workers :
         /\ pc[w] = "commit" /\ ~InTransaction(w)'
         /\ movies' = movies \cup tx[w].movies
         /\ sources' = sources \cup tx[w].sources
         /\ genres' = genres \cup tx[w].genres
         /\ movie_genres' = movie_genres \cup tx[w].movie_genres
  /\ \A w \in Workers :
       (InTransaction(w) /\ ~InTransaction(w)')
         => /\ tx'[w] = EmptyTx
            /\ pc[w] # "commit" => db' = db
            /\ pc[w] = "commit" =>
                 \/ db' = db
                 \/ /\ movies' = movies \cup tx[w].movies
                    /\ sources' = sources \cup tx[w].sources
                    /\ genres' = genres \cup tx[w].genres
                    /\ movie_genres' = movie_genres \cup tx[w].movie_genres

\* C5, amended: find-or-create and link are atomic per record: the writes
\* of a resolution are committed all at once, at its COMMIT, or not at all;
\* no committed state holds a movie created by a resolution whose mapping
\* step did not commit with it; a failure before COMMIT or a cancellation
\* rolls the created movie back with the mapping, and a failure raised by
\* COMMIT itself leaves both committed or neither.
C5_AtomicPerRecord == []C5_NothingLeftBehind /\ [][C5_Step]_vars

\* C5's case: a resolution failed at its mapping step after it had created
\* a movie.
C5_Witness == Failed /\ last.created /\ last.stage = "source"

\* C6: after a successful resolution a mapping for the record's
\* (platform, source_id) exists and references the movie the resolution
\* returned.
C6_MappingReferencesReturnedItem ==
  Succeeded =>
    \E r \in sources :
      /\ SourceKey(r) = RecordKey(last.via, last.item)
      /\ r.movie = last.movie

\* C8: no failure of a cache operation aborts a resolution: no resolution
\* ends with a connection error or a timeout of the cache.
C8_CacheFailureNeverAborts ==
  ~(Failed /\ last.exc \in {"ConnectionError", "TimeoutError"})

\* C9: a record whose title or release year is missing or empty is never
\* taken past validation, and its resolution (the store answering) ends as
\* a failure of validation.
C9_InvalidRecordRejected ==
  /\ \A w \in Workers :
       (InFlight(w) /\ ~(pc[w] \in {"except", "store"}
                          /\ cur[w].stage \in {"validate", "connect"}))
         => ~RecordInvalid(cur[w].via, cur[w].item)
  /\ (Completed /\ RecordInvalid(last.via, last.item)
        /\ last.exc \notin StoreErrors) =>
       (~last.ok /\ last.stage = "validate")

\* C10: with one record processed at a time, no record fails the checks of
\* COMMIT: a valid record is resolved and committed whatever the records
\* before it did, so the foreign keys of its writes hold.
C10_LaterRecordsUnaffected ==
  ~(Failed /\ last.serial /\ last.via = "pipeline" /\ last.stage = "commit"
      /\ last.exc = "IntegrityError")

\* C11: a record is reported as failed by a transient store error only
\* after it was run three times, the first run and two retries; an error
\* that clears before that does not fail the record.
C11_TransientStoreErrorRetried ==
  (Failed /\ last.exc = "OperationalError") => last.attempts = 3

\* C12, the order: r is the item of the first of the strategies exact (e),
\* fuzzy (f), variation (v) that returned one
C12_FirstOf(e, f, v, r) ==
  r = (IF ~IsNone(e) THEN e ELSE IF ~IsNone(f) THEN f ELSE v)

\* C12: the strategies are tried in the order exact, fuzzy, variation and
\* the first that returns an item ends the search with it; and a resolution
\* of a valid record (the store answering) has created a movie if and only
\* if every strategy returned no match.
C12_CreatedIffAllStrategiesMiss ==
  /\ \A w \in Workers, call \in Calls :
       \A order \in potential_matches(fuzzy_rows(w, call)) :
         C12_FirstOf(match_by_exact_criteria(w, call),
                     match_by_fuzzy_logic(call, order),
                     match_by_title_variations(w, call),
                     find_or_get_movie(w, call, order))
  /\ (Completed /\ ~RecordInvalid(last.via, last.item)
        /\ last.exc \notin StoreErrors) =>
       (last.created <=> last.found \in {"none", "stale"})

\* the resolution completed last ran with no other at the same time, and
\* the store answered it
RanAlone == Completed /\ last.serial /\ last.exc \notin StoreErrors

\* the movies the store held before the resolution completed last ran,
\* when it ran alone: all but the one it created
ExistingBefore == {m \in movies : ~(last.created /\ m.id = last.movie)}

\* the movies of ExistingBefore with the year and the normalized title of
\* the record of the resolution completed last
SameKey ==
  {m \in ExistingBefore :
     /\ m.year = last.item.release_year
     /\ normalize_title(Some(m.title)) = normalize_title(last.item.title)}

\* C13: a record with the release year Y whose title normalizes to the key
\* of the title of an existing movie (T, Y), with or without a title_en,
\* resolves (alone, the store answering) to such a movie and creates none.
C13_ExactMatchOnNormalizedKey ==
  (RanAlone /\ normalize_title(last.item.title) # << >> /\ SameKey # {}) =>
    /\ ~last.created
    /\ \E m \in SameKey : m.id = last.movie

\* the title and the content kind of a valid record
RecordTitle(via, item) ==
  IF via = "pipeline" THEN ItemTitle(item) ELSE Val(item.title)
RecordKind(via, item) ==
  IF via = "pipeline" THEN ItemType(item) ELSE item.movie_type

YearsApart(a, b) == IF a >= b THEN a - b ELSE b - a

\* the movies of ExistingBefore with the title and the kind of the record of
\* the resolution completed last
SameTitle ==
  {m \in ExistingBefore :
     /\ m.title = RecordTitle(last.via, last.item)
     /\ m.type = RecordKind(last.via, last.item)}

\* those of them at most one year from the record
SameTitleNear ==
  {m \in SameTitle : YearsApart(m.year, last.item.release_year) <= 1}

\* C14: a record with the title and the kind of an existing movie of year Y
\* resolves (alone, the store answering) to it when its release year is
\* Y-1, Y or Y+1; and when the movies with its title are all two or more
\* years from it, and no other movie is within one year of it, its
\* resolution creates a movie.
C14_YearToleranceOfOne ==
  (RanAlone /\ ~RecordInvalid(last.via, last.item)) =>
    /\ SameTitleNear # {} =>
         /\ ~last.created
         /\ \E m \in SameTitleNear : m.id = last.movie
    /\ ( /\ SameTitle # {}
         /\ \A m \in ExistingBefore :
              YearsApart(m.year, last.item.release_year) >= 2 )
         => last.created

\* the movies of ExistingBefore of the record's year whose title contains
\* the base title of entry i of the variation table
BaseHolders(i) ==
  {m \in ExistingBefore :
     /\ m.year = last.item.release_year
     /\ Contains(m.title, title_variations[i][1])}

\* C15: a record whose normalized title is the normalized form of an
\* alternate registered for a base title, and whose year is the year of the
\* one movie that holds the base title, resolves (alone, the store
\* answering) to that movie and creates none.
C15_RegisteredAlternateResolvesToBase ==
  (RanAlone /\ ~IsNone(last.item.title)) =>
    \A i \in DOMAIN title_variations :
      ( /\ normalize_title(last.item.title)
             \in NormalizedAlternates(title_variations[i])
        /\ Cardinality(BaseHolders(i)) = 1 ) =>
        /\ ~last.created
        /\ \E m \in BaseHolders(i) : m.id = last.movie

\* C16: after a successful resolution of a valid record whose cache writes
\* were not given up, the cache holds under the key of the record's (title,
\* release year) the id of the movie the resolution returned, whether the
\* movie was matched or created.
C16_CacheHoldsResolvedItem ==
  (Succeeded /\ ~RecordInvalid(last.via, last.item) /\ ~last.cache_failed) =>
    /\ MatchKey(RecordTitle(last.via, last.item), last.item.release_year)
         \in DOMAIN redis_match
    /\ redis_match[MatchKey(RecordTitle(last.via, last.item),
                            last.item.release_year)] = last.movie

\* C17, in every step: every movie of the store is there afterwards with
\* the same id, title, year and type and the same genres; what a step adds
\* is movies with new ids and the genre links of those.
C17_Step ==
  /\ movies \subseteq movies'
  /\ \A n \in movies' \ movies : \A m \in movies : m.id # n.id
  /\ movie_genres \subseteq movie_genres'
  /\ \A l \in movie_genres' \ movie_genres :
       \A m \in movies : m.id # l.movie_id

\* C17: no resolution deletes a movie or changes a field of an existing
\* movie; on a match the movie and every other movie stay as they were.
C17_ItemsNeverChanged == [][C17_Step]_vars

\* C17's case: a resolution matched a record to a movie stored under
\* another title and was committed.
C17_Witness ==
  /\ Succeeded /\ ~last.created /\ ~IsNone(last.item.title)
  /\ \E m \in movies :
       m.id = last.movie /\ m.title # RecordTitle(last.via, last.item)

\* C18's case: another resolution holds, not yet committed, the row of a
\* genre the record of the last resolution names.
GenreCreatedConcurrently ==
  \E o \in Workers : \E g \in tx[o].genres :
    \E i \in DOMAIN last.item.genres : Strip(last.item.genres[i]) = g.name

\* C18: a genre name has at most one row, every genre link of the store is
\* to a stored genre, and a resolution that creates a movie does not fail at
\* its commit while another resolution is creating a genre it names.
C18_ConcurrentGenreCreation ==
  /\ \A g1, g2 \in genres : g1.name = g2.name => g1 = g2
  /\ \A l \in movie_genres : \E g \in genres : g.id = l.genre_id
  /\ ~(/\ Failed /\ last.via = "pipeline" /\ last.created
       /\ last.stage = "commit" /\ last.exc = "IntegrityError"
       /\ GenreCreatedConcurrently)

\* C19: the third component of the result of process_scraped_content is a
\* boolean, TRUE exactly when the call created the mapping of the record's
\* (platform, source_id); a call whose mapping existed before returns, and
\* returns FALSE there.
C19_ThirdComponentIsNewlyLinked ==
  /\ (Succeeded /\ last.via = "manager") =>
       (/\ last.source.type = "bool"
        /\ last.source.value = last.source_created)
  /\ (Completed /\ last.via = "manager" /\ last.stage = "source"
      /\ last.exc # "OperationalError") => last.ok

(***************************************************************************)
(* normalize_title on its own: the titles are drawn at the start and one  *)
(* step applies the function to both.                                      *)
(***************************************************************************)
\* the longest title drawn from TitleAlphabet
MaxTitleLen == 3

\* a stop word, a letter in both cases, a punctuation mark and the blank
TitleAlphabet == {"a", "M", "m", ".", " "}

TheMatrixLower == <<"t","h","e"," ","m","a","t","r","i","x">>

\* the titles of the normalisation's own examples
ExampleTitles == {TheMatrix, TheMatrixLower, Matrix}

\* the arguments of normalize_title: no title, or a str
TitleInputs ==
  {None} \cup
  {Some(t) : t \in ExampleTitles \cup
     UNION {[1..n -> TitleAlphabet] : n \in 0..MaxTitleLen}}

InitNormalize ==
  /\ movies = {} /\ sources = {} /\ genres = {} /\ movie_genres = {}
  /\ movie_seq = 0 /\ genre_seq = 0
  /\ redis_match = << >> /\ redis_item_sources = << >>
  /\ stats = [p \in Spiders |-> NoStats]
  /\ genre_cache = [p \in Spiders |-> << >>]
  /\ opened = [p \in Spiders |-> "no"]
  /\ pc = [w \in Workers |-> "idle"]
  /\ cur = [w \in Workers |-> Idle]
  /\ tx = [w \in Workers |-> EmptyTx]
  /\ started = 0
  /\ last \in {[via |-> "titles", title1 |-> a, title2 |-> b] :
                 a \in TitleInputs, b \in TitleInputs}

\* self.normalize_title(title1), self.normalize_title(title2)
normalize_titles ==
  /\ last.via = "titles"
  /\ last' = [via |-> "normalized",
              title1 |-> last.title1, title2 |-> last.title2,
              key1 |-> normalize_title(last.title1),
              key2 |-> normalize_title(last.title2)]
  /\ UNCHANGED << db, movie_seq, genre_seq, redis_match, redis_item_sources,
                  stats, genre_cache, opened, pc, cur, tx, started >>

SpecNormalize == InitNormalize /\ [][normalize_titles]_vars

\* a title without its punctuation marks
WithoutPunctuation(t) == SelectSeq(t, LAMBDA c : c \notin Punctuation)

\* the words of a title that are not stop words
WithoutStopWords(t) == FilterWords(Split(t), common_words)

\* two titles differ at most in letter case, at most in punctuation marks,
\* or at most in stop words
DifferOnlyInCase(a, b) == Lower(a) = Lower(b)
DifferOnlyInPunctuation(a, b) == WithoutPunctuation(a) = WithoutPunctuation(b)
DifferOnlyInStopWords(a, b) == WithoutStopWords(a) = WithoutStopWords(b)

\* C20: two titles that differ only in letter case, only in punctuation or
\* only in stop words get the same key, the three example titles get the
\* same key, and no title and the empty title get the empty key.
C20_NormalizeEquivalence ==
  last.via = "normalized" =>
    /\ (IsNone(last.title1) \/ Val(last.title1) = << >>) => last.key1 = << >>
    /\ (~IsNone(last.title1) /\ ~IsNone(last.title2)) =>
         LET a == Val(last.title1)
             b == Val(last.title2)
         IN  /\ (a \in ExampleTitles /\ b \in ExampleTitles) =>
                  last.key1 = last.key2
             /\ DifferOnlyInCase(a, b) => last.key1 = last.key2
             /\ DifferOnlyInStopWords(a, b) => last.key1 = last.key2
             /\ DifferOnlyInPunctuation(a, b) => last.key1 = last.key2

\* C21, for one call: r, the result of the fuzzy strategy over the
\* candidates as the query yields them, is an item exactly when a candidate
\* scores at the threshold or above, and then the first of the candidates
\* of the best score
C21_BestOf(title, order, r) ==
  LET sc == [i \in DOMAIN order |-> similarity_score(title, Some(order[i].title))]
  IN  /\ ~IsNone(r) <=> \E i \in DOMAIN order : RatLeq(FuzzyThreshold, sc[i])
      /\ ~IsNone(r) =>
           \E i \in DOMAIN order :
             /\ order[i] = Val(r)
             /\ \A j \in DOMAIN order :
                  /\ RatLeq(sc[j], sc[i])
                  /\ sc[j] = sc[i] => i <= j

\* C21: for a call a free worker can make, the fuzzy strategy returns an
\* item if and only if a candidate (same kind, year within one) scores at
\* the threshold or above, and the item is the first of the candidates of
\* the maximal score.
C21_FuzzyReturnsBestCandidate ==
  \A w \in Workers, call \in Calls :
    FreeWorker(w) =>
      \A order \in potential_matches(fuzzy_rows(w, call)) :
        C21_BestOf(StrategyTitle(call), order,
                   match_by_fuzzy_logic(call, order))

(***************************************************************************)
(* _match_by_fuzzy_logic on its own: a catalog and a call are drawn at the *)
(* start and one step runs the strategy twice over them.                   *)
(***************************************************************************)
\* the movies of the catalogs: a title stored under two spellings that
\* normalize to one key, the same title a year later, and another title
FuzzyMovies ==
  {[id |-> 1, title |-> Matrix, year |-> 1999, type |-> "movie"],
   [id |-> 2, title |-> TheMatrix, year |-> 1999, type |-> "movie"],
   [id |-> 3, title |-> Matrix, year |-> 2000, type |-> "movie"],
   [id |-> 4, title |-> Shaghayegh, year |-> 1999, type |-> "movie"]}

\* a catalog left by earlier crawls of namava, each movie listed under the
\* source id of its own ("301" for movie 1 and so on), the cache emptied
\* since and no spider open; and the arguments of a call
InitFuzzy ==
  /\ movies \in SUBSET FuzzyMovies
  /\ sources = {[platform |-> NAMAVA, source_id |-> << "301", "302", "303", "304" >>[m.id],
                 movie |-> m.id, url |-> "u1", raw_payload |-> "p1"] :
                  m \in movies}
  /\ genres = {} /\ movie_genres = {}
  /\ movie_seq = Cardinality(FuzzyMovies) /\ genre_seq = 0
  /\ redis_match = << >> /\ redis_item_sources = << >>
  /\ stats = [p \in Spiders |-> NoStats]
  /\ genre_cache = [p \in Spiders |-> << >>]
  /\ opened = [p \in Spiders |-> "no"]
  /\ pc = [w \in Workers |-> "idle"]
  /\ cur = [w \in Workers |-> Idle]
  /\ tx = [w \in Workers |-> EmptyTx]
  /\ started = 0
  /\ last \in {[via |-> "call", item |-> call] : call \in Calls}

\* self._match_by_fuzzy_logic(title, title_en, release_year, movie_type)
\* run twice over the catalog: the candidates query of each run yields its
\* rows in one of the orders it can
match_twice_by_fuzzy_logic ==
  /\ last.via = "call"
  /\ \E order \in potential_matches(fuzzy_rows("w1", last.item)),
        other \in potential_matches(fuzzy_rows("w1", last.item)) :
       last' = [via |-> "fuzzy", item |-> last.item,
                order |-> order, other |-> other,
                match |-> match_by_fuzzy_logic(last.item, order),
                other_match |-> match_by_fuzzy_logic(last.item, other)]
  /\ UNCHANGED << db, movie_seq, genre_seq, redis_match, redis_item_sources,
                  stats, genre_cache, opened, pc, cur, tx, started >>

SpecFuzzy == InitFuzzy /\ [][match_twice_by_fuzzy_logic]_vars

\* the candidates in the order of their identifiers
ById(order) == \A i, j \in DOMAIN order : i < j => order[i].id < order[j].id

\* two runs of the fuzzy strategy over one catalog and one call returned
\* the same
SameInBothRuns == last.via = "fuzzy" => last.match = last.other_match

\* C22: two runs of the fuzzy strategy over the same catalog and the same
\* call examine the candidates in a stable order, the order of their
\* identifiers, and return the same item.
C22_FuzzyDeterministic ==
  /\ last.via = "fuzzy" => (ById(last.order) /\ ById(last.other))
  /\ SameInBothRuns

\* the entries of the variation table of which the title of the call is an
\* alternate, as _match_by_title_variations tests it, and for which the
\* rows hold more than one movie of the call's year and kind that contains
\* the base title
AmbiguousEntries(rows, call) ==
  {i \in DOMAIN title_variations :
     /\ normalize_title(StrategyTitle(call)) \in Range(title_variations[i][2])
     /\ Cardinality({m \in rows :
                       /\ m.year = call.release_year
                       /\ m.type = call.movie_type
                       /\ Contains(Lower(m.title),
                                   Lower(title_variations[i][1]))}) > 1}

\* the variation strategy returns no match for every call in progress
\* whose lookup finds more than one movie with the base title and the year
\* of the call
AmbiguousIsNoMatch ==
  \A w \in Workers :
    (pc[w] = "lookup" /\ cur[w].item.release_year # YearNone
       /\ AmbiguousEntries(VisibleMovies(w), cur[w].item) # {}) =>
      IsNone(match_by_title_variations(w, cur[w].item))

\* C23: when the variation lookup of a call in progress finds more than one
\* movie with the base title and the call's year, the variation strategy
\* returns no match; and a resolution by ContentManager (alone, the store
\* answering) for which the lookup was ambiguous ended with no strategy
\* finding a movie and with a new movie created.
C23_AmbiguousVariationIsNoMatch ==
  /\ AmbiguousIsNoMatch
  /\ (RanAlone /\ last.via = "manager"
        /\ AmbiguousEntries(ExistingBefore, last.item) # {}) =>
       /\ last.found = "none"
       /\ last.created

(***************************************************************************)
(* similarity_score on its own: the two titles are drawn at the start and *)
(* one step scores them.                                                   *)
(***************************************************************************)
\* the longest title drawn from ScoredAlphabet
MaxScoredLen == 3

\* a stop word, two letters and the blank
ScoredAlphabet == {"a", "m", "x", " "}

\* titles of several words, with punctuation and in both scripts
ScoredTitles ==
  {Matrix, TheMatrix, Shaghayegh, DorehDovomShaghayegh, FathersHouse}
  \cup Range(title_variations[1][2])

\* the arguments of similarity_score: no title, or a str
ScoredInputs ==
  {None} \cup
  {Some(t) : t \in ScoredTitles \cup
     UNION {[1..n -> ScoredAlphabet] : n \in 0..MaxScoredLen}}

InitSimilarity ==
  /\ movies = {} /\ sources = {} /\ genres = {} /\ movie_genres = {}
  /\ movie_seq = 0 /\ genre_seq = 0
  /\ redis_match = << >> /\ redis_item_sources = << >>
  /\ stats = [p \in Spiders |-> NoStats]
  /\ genre_cache = [p \in Spiders |-> << >>]
  /\ opened = [p \in Spiders |-> "no"]
  /\ pc = [w \in Workers |-> "idle"]
  /\ cur = [w \in Workers |-> Idle]
  /\ tx = [w \in Workers |-> EmptyTx]
  /\ started = 0
  /\ last \in {[via |-> "titles", title1 |-> a, title2 |-> b] :
                 a \in ScoredInputs, b \in ScoredInputs}

\* self.similarity_score(title1, title2)
score_titles ==
  /\ last.via = "titles"
  /\ last' = [via |-> "scored",
              title1 |-> last.title1, title2 |-> last.title2,
              score |-> similarity_score(last.title1, last.title2)]
  /\ UNCHANGED << db, movie_seq, genre_seq, redis_match, redis_item_sources,
                  stats, genre_cache, opened, pc, cur, tx, started >>

SpecSimilarity == InitSimilarity /\ [][score_titles]_vars

\* two scores are the same number
RatEq(p, q) == p[1] * q[2] = q[1] * p[2]

\* C24, for the normalized titles n1 and n2 and their score: the score is 0
\* when one of them is empty, 1 when they are equal and not empty, and
\* otherwise the greater of the two metrics; and it lies in [0, 1]
C24_ScoreOf(n1, n2, score) ==
  /\ score[2] > 0 /\ 0 <= score[1] /\ score[1] <= score[2]
  /\ (n1 = << >> \/ n2 = << >>) => score[1] = 0
  /\ (n1 # << >> /\ n1 = n2) => score[1] = score[2]
  /\ (n1 # << >> /\ n2 # << >> /\ n1 # n2) =>
       /\ RatLeq(sequence_ratio(n1, n2), score)
       /\ RatLeq(jaro_winkler_similarity(n1, n2), score)
       /\ \/ RatEq(score, sequence_ratio(n1, n2))
          \/ RatEq(score, jaro_winkler_similarity(n1, n2))

\* C24: the similarity score of two titles is 0.0 when a title is missing or
\* normalizes to the empty string, 1.0 when the normalized titles are equal
\* and not empty, otherwise the maximum of the two metrics, and always
\* within [0, 1].
C24_SimilarityScore ==
  last.via = "scored" =>
    C24_ScoreOf(normalize_title(last.title1), normalize_title(last.title2),
                last.score)

\* C24's case: two titles with different, non-empty normalized forms were
\* scored and the metrics disagree, the phonetic one being the greater.
C24_Witness ==
  /\ last.via = "scored"
  /\ normalize_title(last.title1) # << >>
  /\ normalize_title(last.title2) # << >>
  /\ normalize_title(last.title1) # normalize_title(last.title2)
  /\ RatLess(sequence_ratio(normalize_title(last.title1),
                            normalize_title(last.title2)),
             last.score)
  /\ RatLess(<< 0, 1 >>, last.score) /\ RatLess(last.score, << 1, 1 >>)

\* the movies worker w sees under the (title, year) of a ContentManager
\* call: the rows the constraint unique_title_year sets against a new one
SameTitleYear(w, call) ==
  {m \in VisibleMovies(w) :
     ~IsNone(call.title) /\ m.title = Val(call.title)
       /\ m.year = call.release_year}

\* C25, with no resolutions at the same time: when every strategy misses
\* for a valid call, the store holds no movie with the call's (title,
\* year); and no resolution of a valid record that no strategy matched
\* fails at the creation of the movie, unless the store itself failed.
C25_CreateSucceedsOnMiss ==
  /\ \A w \in Workers, call \in Calls :
       (Serial /\ ~RecordInvalid("manager", call)
          /\ \A order \in potential_matches(fuzzy_rows(w, call)) :
               IsNone(find_or_get_movie(w, call, order))) =>
         SameTitleYear(w, call) = {}
  /\ (RanAlone /\ ~RecordInvalid(last.via, last.item)
        /\ last.found \in {"none", "stale"}) =>
       ~(~last.ok /\ last.stage = "create")

\* C26: every entry of the match cache names a movie that is committed in
\* the store or is held by a transaction still open; once the transaction
\* that created a movie has rolled back, no entry names the movie.
C26_CacheEntriesCommitted ==
  \A k \in DOMAIN redis_match :
    \E m \in movies \cup UNION {tx[w].movies : w \in Workers} :
      m.id = redis_match[k]

\* C27: every entry of a pipeline's genre cache names a genre row of its
\* name that is committed in the store or is held by a transaction still
\* open; a genre whose transaction has rolled back is not in the cache.
C27_GenreCacheCommitted ==
  \A p \in Spiders : \A n \in DOMAIN genre_cache[p] :
    \E g \in genres \cup UNION {tx[w].genres : w \in Workers} :
      g.id = genre_cache[p][n] /\ g.name = n

\* items_created + matches_found + errors, over the pipelines
CountedRecords ==
  LET n(p) == stats[p].items_created + stats[p].matches_found + stats[p].errors
  IN  n("filimo_api") + n("namava")

\* C28: when the worker threads have finished all the records handed to
\* process_item, items_created + matches_found + errors is the number of
\* those records: each was counted in exactly one of the three.
C28_CountersSumToRecords ==
  (\A w \in Workers : pc[w] = "idle") => CountedRecords = started

====
